---- MODULE Spec2Model ----
(***************************************************************************)
(* Model of the hex-puzzle solver: the Grid (grid.py), the piece catalog   *)
(* (pieces.py) and the backtracking search (solve.py).                     *)
(*                                                                         *)
(* A cell is the pair <<x, y>>; the code's matrix access grid[y, x] is     *)
(* written g[<<x, y>>] here.  Python lists are 1-based sequences.          *)
(***************************************************************************)
EXTENDS Integers, Sequences, FiniteSets

\* ------------------------------------------------------------------------
\* grid.py: constants
\* ------------------------------------------------------------------------
N == 11

FREE == 0

BLOCKED == -1

HIDDEN == -2

VISITED == -4

\* the value of an object slot that was never assigned
None == "None"

\* ------------------------------------------------------------------------
\* pieces.py: constants and shape tables
\* ------------------------------------------------------------------------
NUM_PIECES == 12

\* a neighbour table that misses the sixth direction
movement_dict_five ==
    << <<1, 0>>, <<0, 1>>, <<-1, 1>>, <<-1, 0>>, <<0, -1>> >>

movement_dict ==
    << <<1, 0>>, <<0, 1>>, <<-1, 1>>, <<-1, 0>>, <<0, -1>>, <<1, -1>> >>

\* a rotation list in the opposite order
rot_list_reversed == << 2, 1, 0 >>

\* a rotation list that misses the last rotation
rot_list_two == << 0, 1 >>

rot_list == << 0, 1, 2 >>

\* a table for Piece1 with the rows of rotations 1 and 2 exchanged
Piece1_movements_swapped ==
    << << <<0, 0>>, <<1, 0>>, <<2, 0>>, <<2, 1>>, <<3, -1>> >>,
       << <<0, 0>>, <<0, -1>>, <<0, -2>>, <<1, -3>>, <<-1, -2>> >>,
       << <<0, 0>>, <<-1, 1>>, <<-2, 2>>, <<-3, 2>>, <<-2, 3>> >> >>

Piece1_movements ==
    << << <<0, 0>>, <<1, 0>>, <<2, 0>>, <<2, 1>>, <<3, -1>> >>,
       << <<0, 0>>, <<-1, 1>>, <<-2, 2>>, <<-3, 2>>, <<-2, 3>> >>,
       << <<0, 0>>, <<0, -1>>, <<0, -2>>, <<1, -3>>, <<-1, -2>> >> >>

Piece2_movements ==
    << << <<0, 0>>, <<0, 1>>, <<-1, 2>>, <<-1, 3>>, <<-2, 3>> >>,
       << <<0, 0>>, <<-1, 0>>, <<-1, -1>>, <<-2, -1>>, <<-1, -2>> >>,
       << <<0, 0>>, <<1, -1>>, <<2, -1>>, <<3, -2>>, <<3, -1>> >> >>

Piece3_movements ==
    << << <<0, 0>>, <<1, 0>>, <<2, 0>>, <<2, 1>>, <<3, 1>> >>,
       << <<0, 0>>, <<-1, 1>>, <<-2, 2>>, <<-3, 2>>, <<-4, 3>> >>,
       << <<0, 0>>, <<0, -1>>, <<0, -2>>, <<1, -3>>, <<1, -4>> >> >>

Piece4_movements ==
    << << <<0, 0>>, <<1, -1>>, <<2, -1>>, <<3, -1>>, <<2, 0>> >>,
       << <<0, 0>>, <<0, 1>>, <<-1, 2>>, <<-2, 3>>, <<-2, 2>> >>,
       << <<0, 0>>, <<-1, 0>>, <<-1, -1>>, <<-1, -2>>, <<0, -2>> >> >>

Piece5_movements ==
    << << <<0, 0>>, <<1, 0>>, <<2, 0>>, <<3, 0>>, <<3, -1>> >>,
       << <<0, 0>>, <<-1, 1>>, <<-2, 2>>, <<-3, 3>>, <<-2, 3>> >>,
       << <<0, 0>>, <<0, -1>>, <<0, -2>>, <<0, -3>>, <<-1, -2>> >> >>

Piece6_movements ==
    << << <<0, 0>>, <<-1, 0>>, <<-2, 0>>, <<-3, 1>>, <<-4, 2>> >>,
       << <<0, 0>>, <<1, -1>>, <<2, -2>>, <<2, -3>>, <<2, -4>> >>,
       << <<0, 0>>, <<0, 1>>, <<0, 2>>, <<1, 2>>, <<2, 2>> >> >>

Piece7_movements ==
    << << <<0, 0>>, <<-1, 0>>, <<-2, 0>>, <<-2, 1>>, <<-3, 2>> >>,
       << <<0, 0>>, <<1, -1>>, <<2, -2>>, <<1, -2>>, <<1, -3>> >>,
       << <<0, 0>>, <<0, 1>>, <<0, 2>>, <<1, 1>>, <<2, 1>> >> >>

Piece8_movements ==
    << << <<0, 0>>, <<0, 1>>, <<1, 1>>, <<2, 1>>, <<3, 1>> >>,
       << <<0, 0>>, <<-1, 0>>, <<-2, 1>>, <<-3, 2>>, <<-4, 3>> >>,
       << <<0, 0>>, <<1, -1>>, <<1, -2>>, <<1, -3>>, <<1, -4>> >> >>

\* a table for Piece9 whose rotation 0 has a component two cells away from
\* the rest
Piece9_movements_split ==
    << << <<0, 0>>, <<0, 1>>, <<-1, 1>>, <<-1, 2>>, <<-1, 4>> >>,
       << <<0, 0>>, <<-1, 0>>, <<0, -1>>, <<-1, -1>>, <<-2, -1>> >>,
       << <<0, 0>>, <<1, -1>>, <<1, 0>>, <<2, -1>>, <<3, -2>> >> >>

Piece9_movements ==
    << << <<0, 0>>, <<0, 1>>, <<-1, 1>>, <<-1, 2>>, <<-1, 3>> >>,
       << <<0, 0>>, <<-1, 0>>, <<0, -1>>, <<-1, -1>>, <<-2, -1>> >>,
       << <<0, 0>>, <<1, -1>>, <<1, 0>>, <<2, -1>>, <<3, -2>> >> >>

Piece10_movements ==
    << << <<0, 0>>, <<1, 0>>, <<1, 1>>, <<2, 1>>, <<1, 2>> >>,
       << <<0, 0>>, <<-1, 1>>, <<-2, 1>>, <<-3, 2>>, <<-3, 1>> >>,
       << <<0, 0>>, <<0, -1>>, <<1, -2>>, <<1, -3>>, <<2, -3>> >> >>

Piece11_movements ==
    << << <<0, 0>>, <<1, 0>>, <<2, -1>>, <<2, 0>>, <<2, 1>> >>,
       << <<0, 0>>, <<-1, 1>>, <<-1, 2>>, <<-2, 2>>, <<-3, 2>> >>,
       << <<0, 0>>, <<0, -1>>, <<-1, -1>>, <<0, -2>>, <<1, -3>> >> >>

Piece12_movements ==
    << << <<0, 0>>, <<1, 0>>, <<0, 1>>, <<1, 1>>, <<2, 1>> >>,
       << <<0, 0>>, <<-1, 1>>, <<-1, 0>>, <<-2, 1>>, <<-3, 2>> >>,
       << <<0, 0>>, <<0, -1>>, <<1, -1>>, <<1, -2>>, <<1, -3>> >> >>

\* movements[t][r + 1] is the class attribute `movements[r]` of class Piece<t>
movements ==
    << Piece1_movements, Piece2_movements, Piece3_movements,
       Piece4_movements, Piece5_movements, Piece6_movements,
       Piece7_movements, Piece8_movements, Piece9_movements,
       Piece10_movements, Piece11_movements, Piece12_movements >>

\* Piece.__make_coords: the absolute coordinates of the five components
make_coords(index, base_x, base_y, rotation) ==
    [k \in 1..Len(movements[index][rotation + 1]) |->
        << base_x + movements[index][rotation + 1][k][1],
           base_y + movements[index][rotation + 1][k][2] >>]

\* Piece.__init__: the stored rotation is rotation % 3
Piece(index, base_x, base_y, rotation) ==
    [index    |-> index,
     base_x   |-> base_x,
     base_y   |-> base_y,
     rotation |-> rotation % 3,
     points   |-> make_coords(index, base_x, base_y, rotation % 3)]

\* get_piece(idx): a piece of type idx with the default base and rotation
get_piece(idx) == Piece(idx, 0, 0, 0)

\* get_piece(index, **piece_conf)
get_piece_conf(index, piece_conf) ==
    Piece(index, piece_conf.base_x, piece_conf.base_y, piece_conf.rotation)

\* an instantiation that keeps the rotation of the piece it is called on
make_new_same_rotation(piece, x, y, rot) ==
    Piece(piece.index, x, y, piece.rotation)

\* Piece.make_new: a fresh piece of the same type
make_new(piece, x, y, rot) == Piece(piece.index, x, y, rot)

\* ------------------------------------------------------------------------
\* grid.py: the board
\* ------------------------------------------------------------------------
Cells == (0..(N - 1)) \X (0..(N - 1))

\* Python's range(a, b) as a list
range(a, b) == [k \in 1..(IF b > a THEN b - a ELSE 0) |-> a + k - 1]

Max(a, b) == IF a >= b THEN a ELSE b

\* a column list that stops one column early
allowed_xs_list_short == range(1, 9)

allowed_xs_list == range(1, 10)

\* allowed_ys_lists[x] here is the code's allowed_ys_lists[x-1]
allowed_ys_lists ==
    [i \in 1..Len(allowed_xs_list) |->
        range(Max(6 - allowed_xs_list[i], 1),
              10 - Max(0, allowed_xs_list[i] - 5))]

\* the cells in the order of the nested loops
\*   for x in allowed_xs_list: for y in allowed_ys_lists[x-1]
RECURSIVE ScanFrom(_)
ScanFrom(i) ==
    IF i > Len(allowed_xs_list) THEN << >>
    ELSE [k \in 1..Len(allowed_ys_lists[allowed_xs_list[i]]) |->
             << allowed_xs_list[i], allowed_ys_lists[allowed_xs_list[i]][k] >>]
         \o ScanFrom(i + 1)

ScanOrder == ScanFrom(1)

\* a rectangular slice assignment grid[r, cols] = v
SetCells(g, S, v) == [c \in Cells |-> IF c \in S THEN v ELSE g[c]]

Row(r, cols) == {<< x, r >> : x \in cols}

\* Grid.__init_grid, bottom half: for r, c in enumerate(range(4, -1, -1))
RECURSIVE FillBottom(_, _)
FillBottom(g, r) ==
    IF r > 4 THEN g
    ELSE LET c  == 4 - r
             g1 == SetCells(g, Row(r + 1, 0..(c - 1)), HIDDEN)
             g2 == SetCells(g1, Row(r + 1, {c}), BLOCKED)
             g3 == SetCells(g2, Row(r + 1, {N - 1}), BLOCKED)
         IN FillBottom(g3, r + 1)

\* Grid.__init_grid, top half: for r, c in enumerate(range(6, 1, -1))
RECURSIVE FillTop(_, _)
FillTop(g, r) ==
    IF r > 4 THEN g
    ELSE LET c  == 6 - r
             rr == N - (r + 1)
             g1 == SetCells(g, Row(rr, (N - c)..(N - 1)), HIDDEN)
             g2 == SetCells(g1, Row(rr, {N - c}), BLOCKED)
             g3 == SetCells(g2, Row(rr, {0}), BLOCKED)
         IN FillTop(g3, r + 1)

\* Grid.__init_grid
init_grid ==
    LET g0 == [c \in Cells |-> FREE]
        g1 == SetCells(g0, Row(0, 0..(N - 1)), HIDDEN)
        g2 == SetCells(g1, Row(0, (N - 6)..(N - 1)), BLOCKED)
        g3 == FillBottom(g2, 0)
        g4 == SetCells(g3, Row(N - 1, 0..(N - 1)), HIDDEN)
        g5 == SetCells(g4, Row(N - 1, 0..5), BLOCKED)
    IN FillTop(g5, 0)

\* Grid._is_point_safe
is_point_safe(x, y) == (0 <= x /\ x < N) /\ (0 <= y /\ y < N)

\* a free test that only rejects the board outline and the blocked cells
is_point_free_unblocked(g, x, y) ==
    is_point_safe(x, y) /\ g[<< x, y >>] \notin {HIDDEN, BLOCKED}

\* a free test that only looks at the matrix bounds
is_point_free_in_matrix(g, x, y) == is_point_safe(x, y)

\* Grid._is_point_free
is_point_free(g, x, y) == is_point_safe(x, y) /\ g[<< x, y >>] = FREE

\* Grid._is_point_valid
is_point_valid(g, x, y) ==
    is_point_safe(x, y) /\ g[<< x, y >>] \notin {HIDDEN, BLOCKED}

\* Grid.__init_neighbors_lists: only the scanned cells get a list, the other
\* slots of the object array stay unassigned
init_neighbors_lists(g) ==
    LET scanned == {ScanOrder[i] : i \in 1..Len(ScanOrder)}
        around(c) == [k \in 1..Len(movement_dict) |->
                         << c[1] + movement_dict[k][1],
                            c[2] + movement_dict[k][2] >>]
    IN [c \in Cells |->
          IF c \in scanned
          THEN SelectSeq(around(c), LAMBDA p : is_point_valid(g, p[1], p[2]))
          ELSE None]

\* a flood fill that works on the Grid's own matrix (_grid = self.grid)
mark_visited_alias(h, c) ==
    [h EXCEPT !.scratch[c] = VISITED, !.grid[c] = VISITED]

\* _grid[y, x] = VISITED: the flood fill writes its marker into the scratch
\* copy only; h.grid is the Grid's own matrix, h.scratch the local _grid
mark_visited(h, c) == [h EXCEPT !.scratch[c] = VISITED]

\* an inverted group test
group_size_bad_inverted(count) == count % 5 = 0

\* a group test with the wrong modulus
group_size_bad_ten(count) == count % 10 # 0

\* if count % 5 != 0
group_size_bad(count) == count % 5 # 0

\* Grid.is_impossible, inner loop: while to_visit: xn, yn = to_visit.pop() ...
\* A pop of a cell that is not FREE in the scratch copy changes nothing but
\* the stack, so the pops down to the last FREE entry are taken in one step;
\* when no entry is FREE the loop only empties the stack.
RECURSIVE flood(_, _, _, _)
flood(h, to_visit, count, nb) ==
    LET live == {i \in 1..Len(to_visit) : h.scratch[to_visit[i]] = FREE}
    IN IF live = {} THEN [h |-> h, count |-> count]
       ELSE LET j    == CHOOSE i \in live : \A k \in live : k <= i
                p    == to_visit[j]
                rest == SubSeq(to_visit, 1, j - 1)
            IN flood(mark_visited(h, p), rest \o nb[p], count + 1, nb)

\* Grid.is_impossible, outer loops over the scanned cells from position i:
\* cells that are not FREE in the scratch copy are skipped (continue)
RECURSIVE scan(_, _, _)
scan(h, i, nb) ==
    LET todo == {j \in i..Len(ScanOrder) : h.scratch[ScanOrder[j]] = FREE}
    IN IF todo = {} THEN [ret |-> FALSE, grid |-> h.grid]
       ELSE LET j == CHOOSE a \in todo : \A b \in todo : a <= b
                f == flood(mark_visited(h, ScanOrder[j]),
                           nb[ScanOrder[j]], 1, nb)
            IN IF group_size_bad(f.count)
               THEN [ret |-> TRUE, grid |-> f.h.grid]
               ELSE scan(f.h, j + 1, nb)

\* Grid.is_impossible: the returned boolean and the Grid's matrix afterwards
is_impossible(g, nb) == scan([grid |-> g, scratch |-> g], 1, nb)

\* all(self._is_point_free(x, y) for x, y in piece)
all_free(g, piece) ==
    \A k \in 1..Len(piece.points) :
        is_point_free(g, piece.points[k][1], piece.points[k][2])

\* a write loop that stops one point early
RECURSIVE put_short(_, _, _, _)
put_short(g, points, k, v) ==
    IF k >= Len(points) THEN g
    ELSE put_short([g EXCEPT ![points[k]] = v], points, k + 1, v)

\* for x, y in piece: self.grid[y, x] = v, from the k-th point on
RECURSIVE put(_, _, _, _)
put(g, points, k, v) ==
    IF k > Len(points) THEN g
    ELSE put([g EXCEPT ![points[k]] = v], points, k + 1, v)

\* Grid.add_piece: the returned boolean and the matrix afterwards
add_piece(g, piece) ==
    IF ~ all_free(g, piece)
    THEN [ret |-> FALSE, grid |-> g]
    ELSE [ret |-> TRUE, grid |-> put(g, piece.points, 1, piece.index)]

\* an index of the matrix: negative indices count from the end
np_index(i) == IF i < 0 THEN i + N ELSE i

np_index_ok(i) == (0 - N) <= i /\ i < N

\* Grid.remove_piece from the k-th point on: an index outside the matrix
\* raises IndexError and keeps the cells already reset
RECURSIVE clear(_, _, _)
clear(g, points, k) ==
    IF k > Len(points) THEN [grid |-> g, error |-> None]
    ELSE IF ~ (np_index_ok(points[k][1]) /\ np_index_ok(points[k][2]))
    THEN [grid |-> g, error |-> "IndexError"]
    ELSE clear([g EXCEPT ![<< np_index(points[k][1]),
                              np_index(points[k][2]) >>] = FREE],
               points, k + 1)

\* a removal that leaves the base cell behind
remove_piece_skip_base(g, piece) == clear(g, piece.points, 2)

\* a removal that leaves the last cell behind
remove_piece_keep_last(g, piece) ==
    clear(g, SubSeq(piece.points, 1, Len(piece.points) - 1), 1)

\* a removal that runs the check the source has commented out
remove_piece_asserted(g, piece) ==
    IF \A k \in 1..Len(piece.points) :
           is_point_valid(g, piece.points[k][1], piece.points[k][2])
    THEN clear(g, piece.points, 1)
    ELSE [grid |-> g, error |-> "AssertionError"]

\* Grid.remove_piece
remove_piece(g, piece) == clear(g, piece.points, 1)

\* ------------------------------------------------------------------------
\* solve.py: candidate enumeration
\* ------------------------------------------------------------------------
\* the candidates of the loops
\*   for rot in rot_list: for x in allowed_xs_list: for y in allowed_ys_lists
RECURSIVE CandidatesFrom(_)
CandidatesFrom(i) ==
    IF i > Len(rot_list) THEN << >>
    ELSE [k \in 1..Len(ScanOrder) |->
             [rot |-> rot_list[i], x |-> ScanOrder[k][1], y |-> ScanOrder[k][2]]]
         \o CandidatesFrom(i + 1)

Candidates == CandidatesFrom(1)

\* ------------------------------------------------------------------------
\* Problem instances (the contents of the YAML configuration file)
\* ------------------------------------------------------------------------
\* the 61 cells of the hexagon with 5 cells per side
HexCells ==
    {c \in Cells : /\ 1 <= c[1] /\ c[1] <= 9
                   /\ 1 <= c[2] /\ c[2] <= 9
                   /\ 6 <= c[1] + c[2] /\ c[1] + c[2] <= 14}

AllTypes == 1..NUM_PIECES

\* a configuration that leaves exactly the cells of `keep` free and makes
\* exactly the piece types of `active` available
Config(keep, active) ==
    [blocked_grid_cells |-> HexCells \ keep,
     excluded_pieces    |-> AllTypes \ active]

\* ten connected cells tiled by Piece9(6, 3, rot 2) and Piece12(4, 3, rot 0)
RegionTwo ==
    { <<4, 3>>, <<4, 4>>, <<5, 3>>, <<5, 4>>, <<6, 3>>,
      <<6, 4>>, <<7, 2>>, <<7, 3>>, <<8, 2>>, <<9, 1>> }

\* ten connected cells that Piece9 and Piece12 cannot tile
RegionNoTiling ==
    { <<5, 3>>, <<6, 2>>, <<6, 3>>, <<7, 2>>, <<7, 3>>,
      <<7, 4>>, <<8, 1>>, <<8, 2>>, <<8, 3>>, <<8, 4>> }

\* five cells, Piece4(6, 6, rot 0), not adjacent to RegionTwo
RegionFive == { <<6, 6>>, <<7, 5>>, <<8, 5>>, <<8, 6>>, <<9, 5>> }

\* two disjoint regions of 3 and 7 cells
RegionThreeSeven ==
    { <<4, 3>>, <<4, 4>>, <<5, 3>> } \cup
    { <<7, 2>>, <<7, 3>>, <<8, 1>>, <<8, 2>>, <<8, 3>>, <<9, 1>>, <<9, 2>> }

\* ten connected cells that Piece7 and Piece11 tile in two ways:
\* Piece7(5, 4, rot 0) with Piece11(6, 1, rot 1), and
\* Piece7(2, 6, rot 1) with Piece11(5, 4, rot 2)
RegionTwoWays ==
    { <<2, 6>>, <<3, 3>>, <<3, 4>>, <<3, 5>>, <<4, 3>>,
      <<4, 4>>, <<5, 2>>, <<5, 3>>, <<5, 4>>, <<6, 1>> }

ProblemTwo == Config(RegionTwo, {9, 12})

ProblemTwoWays == Config(RegionTwoWays, {7, 11})

ProblemNoTiling == Config(RegionNoTiling, {9, 12})

ProblemThreeSeven == Config(RegionThreeSeven, {9, 12})

ProblemFiveTen == Config(RegionTwo \cup RegionFive, {4, 9, 12})

\* ten free cells but a single piece
ProblemOnePiece == Config(RegionTwo, {9})

\* no blocked cell, all twelve pieces
ProblemEmptyBoard == Config(HexCells, AllTypes)

\* every cell blocked, no piece
ProblemNoCell == Config({}, {})

Problems ==
    { ProblemTwo, ProblemNoTiling, ProblemThreeSeven, ProblemFiveTen,
      ProblemOnePiece, ProblemEmptyBoard, ProblemNoCell, ProblemTwoWays }

\* largest value of the check_at argument that is tried
MaxCheckAt == 3

\* ------------------------------------------------------------------------
\* State
\* ------------------------------------------------------------------------
VARIABLES
    grid,       \* Grid.grid
    neighbors,  \* Grid.neighbors
    pieces,     \* the list `pieces` of solve / solve_recursive
    problem,    \* problem_conf
    check_at,   \* the check_at argument
    stack,      \* the active calls of solve_recursive: index, loop position
                \* and the local `piece`, with the grid and the list as they
                \* were when the call was entered
    pc,         \* where the program is
    ret,        \* the value returned by the call that returned last
    last,       \* the last Grid operation: its name, argument and result
    pre,        \* Grid.grid just before the last Grid operation
    added,      \* the placements a direct user of the Grid has on the board
    idx         \* the local `idx` of solve_iter

vars == << grid, neighbors, pieces, problem, check_at, stack, pc, ret,
           last, pre, added, idx >>

Top == stack[Len(stack)]

Pop == SubSeq(stack, 1, Len(stack) - 1)

\* Grid() has run; nothing else has
Init ==
    /\ grid = init_grid
    /\ neighbors = init_neighbors_lists(init_grid)
    /\ pieces = << >>
    /\ problem \in Problems
    /\ check_at \in 0..MaxCheckAt
    /\ stack = << >>
    /\ pc = "prepare_problem"
    /\ ret = FALSE
    /\ last = [op |-> "Grid", piece |-> None, ret |-> FALSE]
    /\ pre = init_grid
    /\ added = {}
    /\ idx = 0

\* ------------------------------------------------------------------------
\* solve.py: prepare_problem and solve
\* ------------------------------------------------------------------------
\* for x, y in problem_conf["blocked_grid_cells"]: grid.grid[y, x] = BLOCKED
apply_blocked(g, conf) == SetCells(g, conf.blocked_grid_cells, BLOCKED)

\* the assertion compiled away
assertion_off(impossible) == FALSE

\* assert not grid.is_impossible(): TRUE when the assertion fails
assertion_fails(impossible) == impossible

\* [get_piece(i) for i in range(1, NUM_PIECES+1) if i not in excluded]
active_pieces(conf) ==
    LET ids == SelectSeq(range(1, NUM_PIECES + 1),
                         LAMBDA i : i \notin conf.excluded_pieces)
    IN [k \in 1..Len(ids) |-> get_piece(ids[k])]

prepare_problem ==
    /\ pc = "prepare_problem"
    /\ LET g == apply_blocked(grid, problem)
           r == is_impossible(g, neighbors)
       IN /\ grid' = r.grid
          /\ pre' = g
          /\ last' = [op |-> "is_impossible", piece |-> None, ret |-> r.ret]
          /\ IF assertion_fails(r.ret)
             THEN pc' = "AssertionError" /\ pieces' = pieces
             ELSE pc' = "shuffle" /\ pieces' = active_pieces(problem)
    /\ UNCHANGED << neighbors, problem, check_at, stack, ret, added, idx >>

\* the orders random.shuffle can leave a list in
ShuffleOrders(s) ==
    {[k \in 1..Len(s) |-> s[f[k]]] :
        f \in {h \in [1..Len(s) -> 1..Len(s)] :
                  \A a, b \in 1..Len(s) : a # b => h[a] # h[b]}}

\* solve: random.shuffle(pieces); solver(grid, pieces, check_at=check_at)
shuffle ==
    /\ pc = "shuffle"
    /\ pieces' \in ShuffleOrders(pieces)
    /\ stack' = << [index |-> 0, cand |-> 1, piece |-> None,
                    entry_grid |-> grid, entry_pieces |-> pieces'] >>
    /\ pc' = "call"
    /\ UNCHANGED << grid, neighbors, problem, check_at, ret, last, pre, added, idx >>

\* ------------------------------------------------------------------------
\* solve.py: solve_recursive
\* ------------------------------------------------------------------------
\* a success path that forgets to store the placement
commit_skip(ps, index, piece) == ps

\* a success path that stores the base cell but not the rotation
commit_base_only(ps, index, piece) ==
    [ps EXCEPT ![index + 1] = Piece(piece.index, piece.base_x, piece.base_y, 0)]

\* pieces[index] = piece
commit(ps, index, piece) == [ps EXCEPT ![index + 1] = piece]

\* if index == len(pieces)
all_placed(index, ps) == index = Len(ps)

\* the index passed to the recursive call
next_index(index) == index + 1

\* a loop that steps back to the candidate before instead of moving on
next_candidate_back(cand) == IF cand > 1 THEN cand - 1 ELSE cand + 1

\* the for loops move on to the next (rot, x, y)
next_candidate(cand) == cand + 1

\* if index == len(pieces): return True
ReturnSolved ==
    /\ pc = "call"
    /\ all_placed(Top.index, pieces)
    /\ ret' = TRUE
    /\ stack' = Pop
    /\ pc' = "return"
    /\ UNCHANGED << grid, neighbors, pieces, problem, check_at, last, pre, added, idx >>

\* if index >= check_at and grid.is_impossible(): return False
Prune ==
    /\ pc = "call"
    /\ ~ all_placed(Top.index, pieces)
    /\ Top.index >= check_at
    /\ LET r == is_impossible(grid, neighbors)
       IN /\ r.ret
          /\ grid' = r.grid
          /\ pre' = grid
          /\ last' = [op |-> "is_impossible", piece |-> None, ret |-> r.ret]
    /\ ret' = FALSE
    /\ stack' = Pop
    /\ pc' = "return"
    /\ UNCHANGED << neighbors, pieces, problem, check_at, added, idx >>

\* the pruning test is skipped or passes: the candidate loops start
BeginLoop ==
    /\ pc = "call"
    /\ ~ all_placed(Top.index, pieces)
    /\ IF Top.index >= check_at
       THEN LET r == is_impossible(grid, neighbors)
            IN /\ ~ r.ret
               /\ grid' = r.grid
               /\ pre' = grid
               /\ last' = [op |-> "is_impossible", piece |-> None,
                           ret |-> r.ret]
       ELSE UNCHANGED << grid, pre, last >>
    /\ pc' = "loop"
    /\ UNCHANGED << neighbors, pieces, problem, check_at, stack, ret, added, idx >>

\* piece = pieces[index].make_new(x, y, rot); if grid.add_piece(piece): recurse
TryCandidate ==
    /\ pc = "loop"
    /\ Top.cand <= Len(Candidates)
    /\ LET c     == Candidates[Top.cand]
           piece == make_new(pieces[Top.index + 1], c.x, c.y, c.rot)
           r     == add_piece(grid, piece)
       IN /\ grid' = r.grid
          /\ pre' = grid
          /\ last' = [op |-> "add_piece", piece |-> piece, ret |-> r.ret]
          /\ IF r.ret
             THEN /\ stack' = Append(
                        [stack EXCEPT ![Len(stack)].piece = piece],
                        [index |-> next_index(Top.index), cand |-> 1,
                         piece |-> None, entry_grid |-> r.grid,
                         entry_pieces |-> pieces])
                  /\ pc' = "call"
             ELSE /\ stack' = [stack EXCEPT
                                   ![Len(stack)].piece = piece,
                                   ![Len(stack)].cand = next_candidate(@)]
                  /\ pc' = "loop"
    /\ UNCHANGED << neighbors, pieces, problem, check_at, ret, added, idx >>

\* the loops are exhausted: return False
Exhausted ==
    /\ pc = "loop"
    /\ Top.cand > Len(Candidates)
    /\ ret' = FALSE
    /\ stack' = Pop
    /\ pc' = "return"
    /\ UNCHANGED << grid, neighbors, pieces, problem, check_at, last, pre, added, idx >>

\* the recursive call returned True: pieces[index] = piece; return True
Commit ==
    /\ pc = "return"
    /\ stack # << >>
    /\ ret = TRUE
    /\ pieces' = commit(pieces, Top.index, Top.piece)
    /\ stack' = Pop
    /\ UNCHANGED << grid, neighbors, problem, check_at, pc, ret, last, pre, added, idx >>

\* the recursive call returned False: grid.remove_piece(piece), next candidate
Backtrack ==
    /\ pc = "return"
    /\ stack # << >>
    /\ ret = FALSE
    /\ LET r == remove_piece(grid, Top.piece)
       IN /\ grid' = r.grid
          /\ pre' = grid
          /\ last' = [op |-> "remove_piece", piece |-> Top.piece, ret |-> FALSE]
          /\ IF r.error = None
             THEN /\ pc' = "loop"
                  /\ stack' = [stack EXCEPT
                                   ![Len(stack)].cand = next_candidate(@)]
             ELSE /\ pc' = r.error
                  /\ stack' = stack
    /\ UNCHANGED << neighbors, pieces, problem, check_at, ret, added, idx >>

\* solve: solved = solver(grid, pieces, check_at=check_at)
Finish ==
    /\ pc = "return"
    /\ stack = << >>
    /\ pc' = "done"
    /\ UNCHANGED << grid, neighbors, pieces, problem, check_at, stack, ret,
                    last, pre, added, idx >>

Next ==
    \/ prepare_problem
    \/ shuffle
    \/ ReturnSolved
    \/ Prune
    \/ BeginLoop
    \/ TryCandidate
    \/ Exhausted
    \/ Commit
    \/ Backtrack
    \/ Finish

Spec == Init /\ [][Next]_vars

\* ------------------------------------------------------------------------
\* solve.py: solve_iter, called on the result of prepare_problem with the
\* list in any order.  `stack` holds the list `generators`: for each list
\* position the piece the generator was made from and the position of its
\* next candidate.
\* ------------------------------------------------------------------------
\* config_gen(piece): a generator that has not produced anything yet
config_gen(piece) == [piece |-> piece, pos |-> 1]

\* generators = [config_gen(piece) for piece in pieces]; idx = 0
IterStart ==
    /\ pc = "shuffle"
    /\ pieces' \in ShuffleOrders(pieces)
    /\ stack' = [k \in 1..Len(pieces) |-> config_gen(pieces'[k])]
    /\ idx' = 0
    /\ pc' = "while"
    /\ UNCHANGED << grid, neighbors, problem, check_at, ret, last, pre, added >>

\* while idx < len(pieces): ... ; return True
IterWhile ==
    /\ pc = "while"
    /\ IF idx < Len(pieces)
       THEN pc' = "search" /\ ret' = ret
       ELSE pc' = "done" /\ ret' = TRUE
    /\ UNCHANGED << grid, neighbors, pieces, problem, check_at, stack, last,
                    pre, added, idx >>

\* search_piece_position: for piece in generator: if grid.add_piece(piece):
\* return piece, generator
IterSearch ==
    /\ pc = "search"
    /\ stack[idx + 1].pos <= Len(Candidates)
    /\ LET c     == Candidates[stack[idx + 1].pos]
           piece == make_new(stack[idx + 1].piece, c.x, c.y, c.rot)
           r     == add_piece(grid, piece)
       IN /\ grid' = r.grid
          /\ pre' = grid
          /\ last' = [op |-> "add_piece", piece |-> piece, ret |-> r.ret]
          /\ stack' = [stack EXCEPT ![idx + 1].pos = @ + 1]
          /\ pc' = IF r.ret THEN "found" ELSE "search"
    /\ UNCHANGED << neighbors, pieces, problem, check_at, ret, added, idx >>

\* a position is found and idx < check_at:
\* pieces[idx] = res[0]; generators[idx] = res[1]; idx += 1
IterCommit ==
    /\ pc = "found"
    /\ ~ (idx >= check_at)
    /\ pieces' = [pieces EXCEPT ![idx + 1] = last.piece]
    /\ idx' = idx + 1
    /\ pc' = "while"
    /\ UNCHANGED << grid, neighbors, problem, check_at, stack, ret, last, pre,
                    added >>

\* a position is found and idx >= check_at: grid.check_isolated() is
\* evaluated, and Grid has no attribute of that name
IterCheckIsolated ==
    /\ pc = "found"
    /\ idx >= check_at
    /\ pc' = "AttributeError"
    /\ UNCHANGED << grid, neighbors, pieces, problem, check_at, stack, ret,
                    last, pre, added, idx >>

\* no position is found and idx > 0:
\* generators[idx] = config_gen(piece); idx -= 1; grid.remove_piece(pieces[idx])
IterBacktrack ==
    /\ pc = "search"
    /\ stack[idx + 1].pos > Len(Candidates)
    /\ idx # 0
    /\ stack' = [stack EXCEPT ![idx + 1] = config_gen(pieces[idx + 1])]
    /\ idx' = idx - 1
    /\ LET r == remove_piece(grid, pieces[idx' + 1])
       IN /\ grid' = r.grid
          /\ pre' = grid
          /\ last' = [op |-> "remove_piece", piece |-> pieces[idx' + 1],
                      ret |-> FALSE]
          /\ pc' = IF r.error = None THEN "while" ELSE r.error
    /\ UNCHANGED << neighbors, pieces, problem, check_at, ret, added >>

\* no position is found and idx == 0: return False
IterReturnFalse ==
    /\ pc = "search"
    /\ stack[idx + 1].pos > Len(Candidates)
    /\ idx = 0
    /\ ret' = FALSE
    /\ pc' = "done"
    /\ UNCHANGED << grid, neighbors, pieces, problem, check_at, stack, last,
                    pre, added, idx >>

IterNext ==
    \/ prepare_problem
    \/ IterStart
    \/ IterWhile
    \/ IterSearch
    \/ IterCommit
    \/ IterCheckIsolated
    \/ IterBacktrack
    \/ IterReturnFalse

IterSpec == Init /\ [][IterNext]_vars

\* ------------------------------------------------------------------------
\* Direct use of the Grid, as make_figure.load_solution does: the blocked
\* cells are written, then pieces are added (and removed) by the caller and
\* the feasibility check is called at will.
\* ------------------------------------------------------------------------
\* the base cells tried are those with N - 2 - BaseSpanX <= x <= N - 2 and
\* y <= BaseSpanY; pieces based there reach free, occupied and blocked cells,
\* the border, the hidden wedge and coordinates outside the matrix
BaseSpanX == 5

BaseSpanY == 4

GridBases ==
    {c \in Cells : /\ N - 2 - BaseSpanX <= c[1] /\ c[1] <= N - 2
                   /\ c[2] <= BaseSpanY}

GridPlacements(conf) ==
    {Piece(t, c[1], c[2], rot_list[i]) :
        t \in AllTypes \ conf.excluded_pieces,
        c \in GridBases,
        i \in 1..Len(rot_list)}

GridProblems ==
    { ProblemTwo, ProblemNoTiling, ProblemThreeSeven, ProblemNoCell }

GridInit ==
    /\ grid = init_grid
    /\ neighbors = init_neighbors_lists(init_grid)
    /\ pieces = << >>
    /\ problem \in GridProblems
    /\ check_at = 3
    /\ stack = << >>
    /\ pc = "load_solution"
    /\ ret = FALSE
    /\ last = [op |-> "Grid", piece |-> None, ret |-> FALSE]
    /\ pre = init_grid
    /\ added = {}
    /\ idx = 0

\* load_solution: grid = Grid(); grid.grid[y, x] = BLOCKED for the blocked cells
LoadBlocked ==
    /\ pc = "load_solution"
    /\ grid' = apply_blocked(grid, problem)
    /\ pre' = grid
    /\ last' = [op |-> "blocked", piece |-> None, ret |-> FALSE]
    /\ pc' = "api"
    /\ UNCHANGED << neighbors, pieces, problem, check_at, stack, ret, added, idx >>

\* grid.add_piece(piece) for any piece of the window
GridAdd ==
    /\ pc = "api"
    /\ \E piece \in GridPlacements(problem) :
         LET r == add_piece(grid, piece)
         IN /\ grid' = r.grid
            /\ pre' = grid
            /\ last' = [op |-> "add_piece", piece |-> piece, ret |-> r.ret]
            /\ added' = IF r.ret THEN added \cup {piece} ELSE added
    /\ UNCHANGED << neighbors, pieces, problem, check_at, stack, pc, ret, idx >>

\* grid.remove_piece(piece) for a piece the caller added and has not removed
GridRemove ==
    /\ pc = "api"
    /\ \E piece \in added :
         LET r == remove_piece(grid, piece)
         IN /\ grid' = r.grid
            /\ pre' = grid
            /\ last' = [op |-> "remove_piece", piece |-> piece, ret |-> FALSE]
            /\ added' = added \ {piece}
    /\ UNCHANGED << neighbors, pieces, problem, check_at, stack, pc, ret, idx >>

\* grid.is_impossible()
GridIsImpossible ==
    /\ pc = "api"
    /\ LET r == is_impossible(grid, neighbors)
       IN /\ grid' = r.grid
          /\ pre' = grid
          /\ last' = [op |-> "is_impossible", piece |-> None, ret |-> r.ret]
    /\ UNCHANGED << neighbors, pieces, problem, check_at, stack, pc, ret, added, idx >>

GridNext ==
    \/ LoadBlocked
    \/ GridAdd
    \/ GridRemove
    \/ GridIsImpossible

GridSpec == GridInit /\ [][GridNext]_vars

\* ------------------------------------------------------------------------
\* A caller of the Grid that breaks the contract of remove_piece: it removes
\* a placement that is not on the grid (never added, refused by add_piece,
\* or removed before).  The run is followed up to the first such call.
\* ------------------------------------------------------------------------
MisuseInit ==
    /\ GridInit
    /\ problem = ProblemTwo

\* grid.remove_piece(piece) for a piece of the window that is not on the grid
RemoveUnplaced ==
    /\ pc = "api"
    /\ \E piece \in GridPlacements(problem) \ added :
         LET r == remove_piece(grid, piece)
         IN /\ grid' = r.grid
            /\ pre' = grid
            /\ last' = [op |-> "remove_piece", piece |-> piece, ret |-> FALSE]
            /\ pc' = IF r.error = None THEN "unplaced_removed" ELSE r.error
    /\ UNCHANGED << neighbors, pieces, problem, check_at, stack, ret, added, idx >>

MisuseNext ==
    \/ LoadBlocked
    \/ GridAdd
    \/ GridRemove
    \/ GridIsImpossible
    \/ RemoveUnplaced

MisuseSpec == MisuseInit /\ [][MisuseNext]_vars

\* ------------------------------------------------------------------------
\* Instantiation on its own: get_piece builds a piece of any type, make_new
\* is called on it with any base and rotation of the input sets
\* ------------------------------------------------------------------------
\* the rotations passed in are -MaxRot .. MaxRot
MaxRot == 4

\* base coordinates inside the board, on the matrix border and outside it
BaseInputs == {-1, 4, N}

PieceArgs ==
    [x : BaseInputs, y : BaseInputs, rot : (0 - MaxRot)..MaxRot]

\* the keyword arguments get_piece is called with
PieceConfs ==
    { [base_x |-> 0, base_y |-> 0, rotation |-> 0],
      [base_x |-> 5, base_y |-> 5, rotation |-> -1] }

PieceInit ==
    /\ grid = init_grid
    /\ neighbors = init_neighbors_lists(init_grid)
    /\ pieces = << >>
    /\ problem = ProblemNoCell
    /\ check_at = 3
    /\ stack = << >>
    /\ pc = "catalog"
    /\ ret = FALSE
    /\ last = [op |-> "Grid", piece |-> None, ret |-> FALSE]
    /\ pre = init_grid
    /\ added = {}
    /\ idx = 0

\* piece = get_piece(index, **piece_conf)
GetPiece ==
    /\ pc = "catalog"
    /\ \E t \in AllTypes, conf \in PieceConfs :
         /\ pieces' = << get_piece_conf(t, conf) >>
         /\ last' = [op |-> "get_piece", piece |-> pieces'[1], ret |-> FALSE,
                     self |-> None,
                     args |-> [index |-> t, x |-> conf.base_x,
                               y |-> conf.base_y, rot |-> conf.rotation]]
    /\ pc' = "piece"
    /\ UNCHANGED << grid, neighbors, problem, check_at, stack, ret, pre, added,
                    idx >>

\* pieces[0].make_new(x, y, rot): the receiver stays in the list
MakeNew ==
    /\ pc = "piece"
    /\ \E a \in PieceArgs :
         last' = [op |-> "make_new",
                  piece |-> make_new(pieces[1], a.x, a.y, a.rot),
                  ret |-> FALSE,
                  self |-> pieces[1],
                  args |-> [index |-> pieces[1].index, x |-> a.x, y |-> a.y,
                            rot |-> a.rot]]
    /\ UNCHANGED << grid, neighbors, pieces, problem, check_at, stack, pc, ret,
                    pre, added, idx >>

PieceNext ==
    \/ GetPiece
    \/ MakeNew

PieceSpec == PieceInit /\ [][PieceNext]_vars

\* ------------------------------------------------------------------------
\* The solution file: solve.save_solution_to_config writes it,
\* make_figure.load_solution replays it
\* ------------------------------------------------------------------------
\* {piece.index: {"base_x": ..., "base_y": ..., "rotation": ...} for piece in
\* pieces}: a later piece of the same type overwrites an earlier one
save_solution(ps) ==
    LET keys == {ps[i].index : i \in 1..Len(ps)}
        at(t) == CHOOSE i \in 1..Len(ps) :
                    /\ ps[i].index = t
                    /\ \A j \in 1..Len(ps) : ps[j].index = t => j <= i
    IN [t \in keys |-> [base_x   |-> ps[at(t)].base_x,
                        base_y   |-> ps[at(t)].base_y,
                        rotation |-> ps[at(t)].rotation]]

\* load_solution, the loop over the entries whose key is not in `seen`, in
\* the order of the file (yaml.safe_dump writes the keys sorted)
RECURSIVE replay(_, _, _)
replay(g, solution, seen) ==
    LET todo == (DOMAIN solution) \ seen
    IN IF todo = {} THEN [grid |-> g, error |-> None]
       ELSE LET index == CHOOSE t \in todo : \A u \in todo : t <= u
                r     == add_piece(g, get_piece_conf(index, solution[index]))
            IN IF ~ r.ret THEN [grid |-> r.grid, error |-> "RuntimeError"]
               ELSE replay(r.grid, solution, seen \cup {index})

\* make_figure.load_solution
load_solution(conf, solution) ==
    replay(apply_blocked(init_grid, conf), solution, {})

\* ------------------------------------------------------------------------
\* Vocabulary of the properties
\* ------------------------------------------------------------------------
HexDirs == { <<1, 0>>, <<0, 1>>, <<-1, 1>>, <<-1, 0>>, <<0, -1>>, <<1, -1>> }

FreeCells(g) == {c \in Cells : g[c] = FREE}

FreeCount(g) == Cardinality(FreeCells(g))

\* the cells a placement names, inside the matrix or not
PointSet(piece) == {piece.points[k] : k \in 1..Len(piece.points)}

\* the cells that carry the type id t
CellsOfType(g, t) == {c \in Cells : g[c] = t}

Adjacent(a, b) == << b[1] - a[1], b[2] - a[2] >> \in HexDirs

\* the cells of F connected to S through cells of F
RECURSIVE Grow(_, _)
Grow(S, F) ==
    LET T == S \cup {c \in F \ S : \E a \in S : Adjacent(a, c)}
    IN IF T = S THEN S ELSE Grow(T, F)

\* the partition of F into connected components
RECURSIVE ComponentsOf(_)
ComponentsOf(F) ==
    IF F = {} THEN {}
    ELSE LET comp == Grow({CHOOSE c \in F : TRUE}, F)
         IN {comp} \cup ComponentsOf(F \ comp)

\* the connected components of the FREE cells of g
Components(g) == ComponentsOf(FreeCells(g))

ComponentSizes(g) == {Cardinality(comp) : comp \in Components(g)}

HasBadComponent(g) == \E n \in ComponentSizes(g) : n % 5 # 0

\* the grid the search starts from: Grid() plus the problem's blocked cells
StartGrid == apply_blocked(init_grid, problem)

\* ------------------------------------------------------------------------
\* Properties
\* ------------------------------------------------------------------------

\* C1: add_piece returns True iff all 5 cells of the placement are inside the
\* matrix and FREE before the call; on True exactly those 5 cells hold the
\* piece's type id and every other cell is unchanged; on False the whole
\* grid equals the grid before the call.
C1_AddPieceContract ==
    last.op = "add_piece" =>
        LET target == PointSet(last.piece)
            fits   == /\ Cardinality(target) = 5
                      /\ \A c \in target : c \in Cells /\ pre[c] = FREE
        IN /\ last.ret = fits
           /\ last.ret =>
                 \A c \in Cells :
                     grid[c] = IF c \in target THEN last.piece.index ELSE pre[c]
           /\ ~ last.ret => grid = pre

\* a refused placement that covers a free cell and a cell of another piece
C1_Witness ==
    /\ last.op = "add_piece"
    /\ ~ last.ret
    /\ \E c \in PointSet(last.piece) \cap Cells : pre[c] = FREE
    /\ \E c \in PointSet(last.piece) \cap Cells : pre[c] > 0
    /\ grid = pre

\* C2: is_impossible returns True iff some connected component of FREE cells
\* (6 hex directions) has a size that is not a multiple of 5; so False when
\* no cell is FREE, True for regions of sizes 3 and 7, False for 5 and 10.
C2_ImpossibleIffBadComponent ==
    last.op = "is_impossible" =>
        /\ last.ret = HasBadComponent(pre)
        /\ FreeCells(pre) = {} => last.ret = FALSE
        /\ ComponentSizes(pre) = {3, 7} => last.ret = TRUE
        /\ ComponentSizes(pre) = {5, 10} => last.ret = FALSE

\* the check has answered True on free regions of sizes 3 and 7
C2_Witness ==
    /\ last.op = "is_impossible"
    /\ ComponentSizes(pre) = {3, 7}
    /\ last.ret = TRUE

\* C3: is_impossible is read-only: after the call the matrix equals the
\* matrix before it, no cell of the real grid ever holds VISITED and the
\* neighbour table is the one built at construction.
C3_ImpossibleReadOnly ==
    /\ \A c \in Cells : grid[c] # VISITED
    /\ neighbors = init_neighbors_lists(init_grid)
    /\ last.op = "is_impossible" => grid = pre

\* the check has returned early with True on a grid that holds a piece
C3_Witness ==
    /\ last.op = "is_impossible"
    /\ last.ret = TRUE
    /\ added # {}
    /\ FreeCells(grid) # {}

\* C4: a successful add_piece immediately followed by remove_piece of the
\* same placement restores the grid of before the add, cell for cell, and so
\* the number of FREE cells.
C4_RoundTrip ==
    [][ ( /\ last.op = "add_piece"
          /\ last.ret
          /\ last'.op = "remove_piece"
          /\ last'.piece = last.piece )
        => ( /\ grid' = pre
             /\ FreeCount(grid') = FreeCount(pre) ) ]_vars

\* a placement has been removed and its five cells are FREE again
C4_Witness ==
    /\ last.op = "remove_piece"
    /\ \A c \in PointSet(last.piece) : pre[c] = last.piece.index /\ grid[c] = FREE
    /\ added # {}

\* the start grid has as many FREE cells as the pieces of the list cover
AreaMatches == FreeCount(StartGrid) = 5 * Len(pieces)

\* the placements of type t, anywhere in the matrix and in any of the three
\* rotations, that lie on cells of F
PlacementsOn(t, F) ==
    {q \in {Piece(t, c[1], c[2], r) : c \in Cells, r \in 0..2} :
        PointSet(q) \subseteq F}

\* the pieces ps[i], ps[i+1], ... can be placed on pairwise disjoint cells of F
RECURSIVE CanPlaceFrom(_, _, _)
CanPlaceFrom(ps, i, F) ==
    \/ i > Len(ps)
    \/ \E q \in PlacementsOn(ps[i].index, F) :
          CanPlaceFrom(ps, i + 1, F \ PointSet(q))

\* C5: when the search returns True on a start grid with 5 * len(pieces)
\* FREE cells, no FREE cell remains, every cell that was FREE holds the type
\* id of exactly one piece, each piece's 5 cells hold its own type id and no
\* two committed placements share a cell.
C5_SolvedCoversAll ==
    (pc = "done" /\ ret = TRUE /\ AreaMatches) =>
        /\ FreeCells(grid) = {}
        /\ \A c \in FreeCells(StartGrid) :
              /\ Cardinality({i \in 1..Len(pieces) : c \in PointSet(pieces[i])}) = 1
              /\ \E i \in 1..Len(pieces) :
                    c \in PointSet(pieces[i]) /\ grid[c] = pieces[i].index
        /\ \A i \in 1..Len(pieces) :
              /\ Cardinality(PointSet(pieces[i])) = 5
              /\ \A c \in PointSet(pieces[i]) :
                    c \in Cells /\ grid[c] = pieces[i].index
        /\ \A i, j \in 1..Len(pieces) :
              i # j => PointSet(pieces[i]) \cap PointSet(pieces[j]) = {}

\* a run with three pieces has ended with success
C5_Witness ==
    /\ pc = "done"
    /\ ret = TRUE
    /\ AreaMatches
    /\ Len(pieces) = 3

\* C6: when the search returns False on a start grid with 5 * len(pieces)
\* FREE cells, whatever check_at is, no assignment of a rotation and a base
\* cell to every piece puts them on pairwise disjoint FREE cells of the
\* start grid.
C6_ExhaustionMeansNoTiling ==
    (pc = "done" /\ ret = FALSE /\ AreaMatches) =>
        ~ CanPlaceFrom(pieces, 1, FreeCells(StartGrid))

\* a run on a grid whose free groups all have a size multiple of 5 has ended
\* with failure after the pruning check cut a branch
C6_Witness ==
    /\ pc = "done"
    /\ ret = FALSE
    /\ AreaMatches
    /\ Len(pieces) = 2
    /\ check_at = 1
    /\ ~ HasBadComponent(StartGrid)

\* C7: a start grid with a FREE region whose size is not divisible by 5 is
\* rejected by prepare_problem before solve_recursive is called, so no piece
\* is ever placed on it.
C7_InfeasibleStartRejected ==
    HasBadComponent(StartGrid) =>
        /\ pc \in {"prepare_problem", "AssertionError"}
        /\ stack = << >>
        /\ last.op # "add_piece"
        /\ \A c \in Cells : grid[c] <= 0

\* the configuration with regions of 3 and 7 cells has been rejected
C7_Witness ==
    /\ pc = "AssertionError"
    /\ ComponentSizes(StartGrid) = {3, 7}

\* the run on the board without blocked cells and with all 12 piece types
EmptyBoardRun ==
    /\ problem.blocked_grid_cells = {}
    /\ problem.excluded_pieces = {}

\* C8 as stated: on the board without blocked cells and with all 12 pieces
\* the run is accepted and ends with the 60 playable cells covered, each by
\* exactly one piece.
C8_EmptyBoardSolved ==
    (EmptyBoardRun /\ pc \in {"AssertionError", "done"}) =>
        /\ pc = "done"
        /\ ret = TRUE
        /\ FreeCount(StartGrid) = 60
        /\ FreeCells(grid) = {}
        /\ \A c \in FreeCells(StartGrid) :
              Cardinality({i \in 1..Len(pieces) : c \in PointSet(pieces[i])}) = 1

\* C8 amended: the board without blocked cells has 61 FREE cells in one
\* region, so prepare_problem rejects the run and no piece is placed.
C8_EmptyBoardRejected ==
    EmptyBoardRun =>
        /\ FreeCount(StartGrid) = 61
        /\ pc \in {"prepare_problem", "AssertionError"}
        /\ stack = << >>
        /\ pc = "AssertionError" => grid = StartGrid

\* the run on the board without blocked cells has been rejected
C8_Witness ==
    /\ EmptyBoardRun
    /\ pc = "AssertionError"
    /\ last.op = "is_impossible"
    /\ last.ret = TRUE

\* C9: when the number of FREE cells of the start grid differs from 5 times
\* the number of active pieces the instance is rejected before the search
\* starts, and is never searched and reported as solved.
C9_AreaMismatchRejected ==
    FreeCount(StartGrid) # 5 * (NUM_PIECES - Cardinality(problem.excluded_pieces)) =>
        /\ pc \in {"prepare_problem", "AssertionError"}
        /\ ~ (pc = "done" /\ ret = TRUE)

\* the number of pieces that are on the grid, read off the active calls
PlacedCount ==
    IF pc \in {"call", "loop"} THEN Top.index
    ELSE IF ret = TRUE THEN Len(pieces)
    ELSE IF stack = << >> THEN 0
    ELSE Top.index + 1

\* C10: at every entry to solve_recursive with index i, and between its
\* add_piece and remove_piece, each piece with list index below i (up to i
\* while its candidate is on the grid) has exactly 5 cells carrying its type
\* id, no cell carries the type id of a piece further down the list, and the
\* number of FREE cells is the initial count minus 5 per placed piece.
C10_SolverStateInvariant ==
    pc \in {"call", "loop", "return"} =>
        /\ \A i \in 1..Len(pieces) :
              Cardinality(CellsOfType(grid, pieces[i].index))
                  = IF i <= PlacedCount THEN 5 ELSE 0
        /\ FreeCount(grid) = FreeCount(StartGrid) - 5 * PlacedCount

\* a call at index 2 has returned False and the candidate of the caller at
\* index 1 is still on the grid, before its remove_piece
C10_Witness ==
    /\ pc = "return"
    /\ ret = FALSE
    /\ stack # << >>
    /\ Top.index = 1
    /\ Len(pieces) = 3

\* the cells of g that hold the value v
CellsWith(g, v) == {c \in Cells : g[c] = v}

\* C11: during a solver run the HIDDEN cells and the BLOCKED cells are
\* exactly those of the start grid: a placement that succeeds covers no
\* HIDDEN or BLOCKED cell and a removal leaves every such cell as it was.
C11_OutlineFixed ==
    /\ pc # "prepare_problem" =>
          /\ CellsWith(grid, HIDDEN) = CellsWith(StartGrid, HIDDEN)
          /\ CellsWith(grid, BLOCKED) = CellsWith(StartGrid, BLOCKED)
    /\ (last.op = "add_piece" /\ last.ret) =>
          \A c \in PointSet(last.piece) :
              c \in Cells /\ pre[c] \notin {HIDDEN, BLOCKED}
    /\ last.op = "remove_piece" =>
          \A c \in Cells :
              pre[c] \in {HIDDEN, BLOCKED} => grid[c] = pre[c]

\* a candidate next to a blocked cell has just been removed while the
\* caller's piece is still on the grid
C11_Witness ==
    /\ pc = "loop"
    /\ last.op = "remove_piece"
    /\ Len(stack) = 2
    /\ \E c \in PointSet(last.piece) :
          \E d \in CellsWith(grid, BLOCKED) : Adjacent(c, d)

\* the types of the list, in list order
TypesOf(ps) == [i \in 1..Len(ps) |-> ps[i].index]

\* C12: when the search returns True, every entry of pieces is a placement
\* of the type that was at that position before the call, it carries the
\* base and rotation that are on the grid, and replaying the saved tuples
\* with add_piece on the start grid succeeds and gives the final grid cell
\* for cell; when it returns False the list is the one that was passed in.
C12_ResultRoundTrip ==
    /\ [](pc = "done" =>
            IF ret
            THEN /\ \A i \in 1..Len(pieces) :
                       /\ pieces[i] = Piece(pieces[i].index, pieces[i].base_x,
                                            pieces[i].base_y, pieces[i].rotation)
                       /\ CellsOfType(grid, pieces[i].index) = PointSet(pieces[i])
                 /\ LET r == load_solution(problem, save_solution(pieces))
                    IN r.error = None /\ r.grid = grid
            ELSE pieces \in ShuffleOrders(active_pieces(problem)))
    /\ [][ (pc \in {"call", "loop", "return"})
              => TypesOf(pieces') = TypesOf(pieces) ]_vars

\* a run has ended with success and a committed placement that is rotated
C12_Witness ==
    /\ pc = "done"
    /\ ret = TRUE
    /\ Len(pieces) = 3
    /\ \E i \in 1..Len(pieces) : pieces[i].rotation = 2

\* the caller has removed a placement that was not on the grid
UnplacedRemoved == pc \notin {"load_solution", "api"}

\* C13 as stated: remove_piece of a placement that is not on the grid is
\* refused and the grid stays as it was.
C13_UnplacedRemoveRefused ==
    UnplacedRemoved => grid = pre

\* C13 amended: remove_piece checks nothing; for a placement that is not on
\* the grid and whose 5 cells are inside the matrix it returns normally, the
\* 5 cells are FREE whatever they held and every other cell is unchanged.
C13_RemoveUnchecked ==
    (UnplacedRemoved /\ PointSet(last.piece) \subseteq Cells) =>
        /\ pc = "unplaced_removed"
        /\ \A c \in Cells :
              grid[c] = IF c \in PointSet(last.piece) THEN FREE ELSE pre[c]

\* a removal of a placement that was not on the grid has freed a blocked
\* cell and a cell of a piece that is on the grid
C13_Witness ==
    /\ pc = "unplaced_removed"
    /\ PointSet(last.piece) \subseteq Cells
    /\ \E c \in PointSet(last.piece) : pre[c] = BLOCKED /\ grid[c] = FREE
    /\ \E c \in PointSet(last.piece) :
          /\ \E q \in added : pre[c] = q.index /\ c \in PointSet(q)
          /\ grid[c] = FREE

\* C14: for every piece type, base (x, y) and integer rotation r, get_piece
\* and make_new return a placement of that type with that base, whose stored
\* rotation is r mod 3 and whose 5 points are, in table order, the base plus
\* the offsets of that type's table row r mod 3; no board is consulted (a
\* base outside the matrix is accepted) and the piece make_new was called on
\* is unchanged.
C14_InstantiationTotal ==
    last.op \in {"get_piece", "make_new"} =>
        LET p == last.piece
            a == last.args
        IN /\ p.index = a.index
           /\ p.base_x = a.x /\ p.base_y = a.y
           /\ p.rotation \in 0..2
           /\ \E k \in (0 - MaxRot - 1)..(MaxRot + 1) : a.rot = p.rotation + 3 * k
           /\ Len(p.points) = 5
           /\ \A k \in 1..5 :
                 p.points[k] = << a.x + movements[a.index][p.rotation + 1][k][1],
                                 a.y + movements[a.index][p.rotation + 1][k][2] >>
           /\ last.op = "make_new" => pieces = << last.self >>
           /\ grid = init_grid

\* make_new was called with a negative rotation and a base outside the
\* matrix on a piece that is itself rotated
C14_Witness ==
    /\ last.op = "make_new"
    /\ last.args.rot = -2
    /\ last.piece.rotation = 1
    /\ last.args.x = N
    /\ last.self.rotation = 2

\* the list as prepare_problem builds it, in the order of ps
FreshList(ps) == [i \in 1..Len(ps) |-> get_piece(ps[i].index)]

\* the piece of the k-th candidate for list position i
CandidatePiece(ps, i, k) ==
    make_new(ps[i + 1], Candidates[k].x, Candidates[k].y, Candidates[k].rot)

\* the depth-first search of solve_recursive with the feasibility check
\* never consulted: its result, the grid and the list it leaves behind
RECURSIVE Unpruned(_, _, _)
RECURSIVE UnprunedFrom(_, _, _, _)
Unpruned(g, ps, i) ==
    IF i = Len(ps) THEN [ret |-> TRUE, grid |-> g, pieces |-> ps]
    ELSE UnprunedFrom(g, ps, i, 1)

UnprunedFrom(g, ps, i, from) ==
    LET fits == {k \in from..Len(Candidates) :
                    add_piece(g, CandidatePiece(ps, i, k)).ret}
    IN IF fits = {} THEN [ret |-> FALSE, grid |-> g, pieces |-> ps]
       ELSE LET k     == CHOOSE a \in fits : \A b \in fits : a <= b
                piece == CandidatePiece(ps, i, k)
                r     == Unpruned(add_piece(g, piece).grid, ps, i + 1)
            IN IF r.ret
               THEN [ret |-> TRUE, grid |-> r.grid,
                     pieces |-> [r.pieces EXCEPT ![i + 1] = piece]]
               ELSE UnprunedFrom(
                        [c \in Cells |->
                            IF c \in PointSet(piece) THEN FREE ELSE r.grid[c]],
                        ps, i, k + 1)

\* C16: on a start grid with 5 * len(pieces) FREE cells the run ends, for
\* every check_at (0, below, equal to and above len(pieces)), with the
\* boolean of the search that never consults the feasibility check and, on
\* success, with its placements and its final grid.
C16_CheckAtIrrelevant ==
    (pc = "done" /\ AreaMatches) =>
        LET ref == Unpruned(StartGrid, FreshList(pieces), 0)
        IN /\ ret = ref.ret
           /\ ret => (pieces = ref.pieces /\ grid = ref.grid)

\* a run with two pieces and check_at above the length of the list has ended
\* with success
C16_Witness ==
    /\ pc = "done"
    /\ ret = TRUE
    /\ AreaMatches
    /\ Len(pieces) = 2
    /\ check_at > Len(pieces)

\* C17: whenever a call of solve_recursive, at any depth, returns False
\* (pruned or with its candidates exhausted), the grid is cell for cell the
\* grid of the moment the call was entered and the list is unchanged.
C17_BacktrackRestores ==
    [][ ( /\ pc \in {"call", "loop"}
          /\ pc' = "return"
          /\ ret' = FALSE )
        => ( /\ grid' = Top.entry_grid
             /\ pieces' = Top.entry_pieces ) ]_vars

\* the call at index 1 of a three-piece run without pruning has run out of
\* candidates and returned False to the call at index 0, whose candidate is
\* the only piece on the grid
C17_Witness ==
    /\ pc = "return"
    /\ ret = FALSE
    /\ Len(stack) = 1
    /\ Len(pieces) = 3
    /\ check_at = 3
    /\ last.op = "add_piece"
    /\ FreeCount(grid) = FreeCount(StartGrid) - 5

\* the position of a placement in the order of the candidate loops:
\* rotation first, then x, then y
CandKey(q) == (q.rotation * N + q.base_x) * N + q.base_y

\* the FREE cells of the start grid that the pieces before list position i
\* leave over
FreeBefore(i) ==
    FreeCells(StartGrid)
        \ UNION {PointSet(pieces[j]) : j \in 1..(i - 1)}

\* C18: on success with matching area the committed sequence is the least
\* one, piece by piece in list order and candidate by candidate in the order
\* rotation, x, y, among all ways to put all pieces on pairwise disjoint FREE
\* cells; once a call has returned True no further candidate is tried and
\* the grid is not touched again.
C18_FirstFound ==
    /\ []((pc = "done" /\ ret /\ AreaMatches) =>
            \A i \in 1..Len(pieces) :
                \A q \in PlacementsOn(pieces[i].index, FreeBefore(i)) :
                    CanPlaceFrom(pieces, i + 1, FreeBefore(i) \ PointSet(q))
                        => CandKey(pieces[i]) <= CandKey(q))
    /\ [][ (pc = "return" /\ ret)
              => (ret' /\ grid' = grid /\ last' = last) ]_vars

\* a run has ended with success on a start grid that the pieces cover in
\* more than one way
C18_Witness ==
    /\ pc = "done"
    /\ ret = TRUE
    /\ AreaMatches
    /\ Len(pieces) = 2
    /\ \E q \in PlacementsOn(pieces[1].index, FreeCells(StartGrid)) :
          /\ q # pieces[1]
          /\ CanPlaceFrom(pieces, 2, FreeCells(StartGrid) \ PointSet(q))

\* solve_recursive(g, ps, i, ca) as a function: the boolean it returns, the
\* grid and the list it leaves behind
RECURSIVE Recursive(_, _, _, _)
RECURSIVE RecursiveFrom(_, _, _, _, _)
Recursive(g, ps, i, ca) ==
    IF i = Len(ps) THEN [ret |-> TRUE, grid |-> g, pieces |-> ps]
    ELSE IF i >= ca /\ is_impossible(g, init_neighbors_lists(init_grid)).ret
    THEN [ret |-> FALSE, grid |-> g, pieces |-> ps]
    ELSE RecursiveFrom(g, ps, i, ca, 1)

RecursiveFrom(g, ps, i, ca, from) ==
    LET fits == {k \in from..Len(Candidates) :
                    add_piece(g, CandidatePiece(ps, i, k)).ret}
    IN IF fits = {} THEN [ret |-> FALSE, grid |-> g, pieces |-> ps]
       ELSE LET k     == CHOOSE a \in fits : \A b \in fits : a <= b
                piece == CandidatePiece(ps, i, k)
                r     == Recursive(add_piece(g, piece).grid, ps, i + 1, ca)
            IN IF r.ret
               THEN [ret |-> TRUE, grid |-> r.grid,
                     pieces |-> [r.pieces EXCEPT ![i + 1] = piece]]
               ELSE RecursiveFrom(remove_piece(r.grid, piece).grid,
                                  ps, i, ca, k + 1)

\* C19: solve_iter completes without error for every start grid, list order
\* and check_at, returns the boolean solve_recursive returns on the same
\* input and, on success, leaves the same grid and the same placements.
C19_IterEquivalent ==
    pc \in {"done", "AttributeError", "IndexError"} =>
        /\ pc = "done"
        /\ LET ref == Recursive(StartGrid, FreshList(pieces), 0, check_at)
           IN /\ ret = ref.ret
              /\ ret => (grid = ref.grid /\ pieces = ref.pieces)

\* the cells the loops over allowed_xs_list and allowed_ys_lists visit
Playable == {ScanOrder[i] : i \in 1..Len(ScanOrder)}

\* C20: on a fresh Grid the cells named by allowed_xs_list and
\* allowed_ys_lists are exactly the FREE cells, they form the hexagon with 5
\* cells per side, every other cell is HIDDEN or BLOCKED, and all 6
\* neighbour coordinates of a playable cell are inside the matrix; the
\* solver's candidate bases and the cells with a neighbour list are the
\* playable cells, each visited once.
C20_BoardShape ==
    pc = "prepare_problem" =>
        /\ Playable = FreeCells(grid)
        /\ Playable = HexCells
        /\ Len(ScanOrder) = Cardinality(Playable)
        /\ \A x \in 1..9 :
              Cardinality({c \in Playable : c[1] = x})
                  = IF x <= 5 THEN 4 + x ELSE 14 - x
        /\ \A c \in Cells \ Playable : grid[c] \in {HIDDEN, BLOCKED}
        /\ \A c \in Playable : \A d \in HexDirs :
              << c[1] + d[1], c[2] + d[2] >> \in Cells
        /\ {<< Candidates[k].x, Candidates[k].y >> : k \in 1..Len(Candidates)}
              = Playable
        /\ Len(Candidates) = 3 * Cardinality(Playable)
        /\ \A c \in Playable :
              \A k \in 1..Len(neighbors[c]) : neighbors[c][k] \in Playable

\* Grid() has just run: 61 cells are FREE and a corner of the hexagon has
\* three playable neighbours
C20_Witness ==
    /\ pc = "prepare_problem"
    /\ last.op = "Grid"
    /\ FreeCount(grid) = 61
    /\ grid[<< 9, 1 >>] = FREE
    /\ Len(neighbors[<< 9, 1 >>]) = 3

\* How far the search has come, as a list of numbers compared from the left.
\* The first number is 0 while the search is under way and grows once the
\* result is known: with every call the result is handed up through, and
\* again when solve has it.  Then one number per call, outermost first:
\* 3 * cand for the call that is about to try candidate cand, 3 * cand + 1
\* while that candidate is on the grid and an inner call is active,
\* 3 * cand + 2 when the inner call has returned False, 2 for a call that has
\* not reached its loops, 0 for a depth without a call.
Progress ==
    LET decided == pc = "done" \/ (pc = "return" /\ (ret \/ stack = << >>))
        head == IF pc = "done" THEN Len(pieces) + 3
                ELSE IF decided THEN Len(pieces) + 2 - Len(stack)
                ELSE 0
        digit(i) ==
            IF decided \/ i > Len(stack) THEN 0
            ELSE IF i < Len(stack) THEN 3 * stack[i].cand + 1
            ELSE IF pc = "call" THEN 2
            ELSE IF pc = "loop" THEN 3 * stack[i].cand
            ELSE 3 * stack[i].cand + 2
    IN << head >> \o [i \in 1..(Len(pieces) + 1) |-> digit(i)]

\* the largest number a list of Progress can hold
ProgressMax == Max(3 * (Len(Candidates) + 1) + 2, Len(pieces) + 3)

\* a comes before b in the order that compares from the left
LexLess(a, b) ==
    /\ Len(a) = Len(b)
    /\ \E i \in 1..Len(a) :
          /\ a[i] < b[i]
          /\ \A j \in 1..(i - 1) : a[j] = b[j]

\* C21: solve_recursive returns after finitely many steps: every step of the
\* search moves Progress strictly forward in an order with finitely many
\* values, the search never stops in an error, and there are never more
\* than len(pieces) + 1 active calls.
C21_Terminates ==
    /\ [](pc \in {"call", "loop", "return", "done"} =>
            /\ Len(stack) <= Len(pieces) + 1
            /\ Len(Progress) = Len(pieces) + 2
            /\ \A i \in 1..Len(Progress) : Progress[i] \in 0..ProgressMax)
    /\ [](pc \notin {"IndexError", "AttributeError"})
    /\ [][ (pc \in {"call", "loop", "return"}) => LexLess(Progress, Progress') ]_vars

\* the innermost call of a three-piece run, at index len(pieces), is active
\* together with its three callers, after the outermost call has taken back
\* at least one candidate
C21_Witness ==
    /\ pc = "call"
    /\ Len(pieces) = 3
    /\ Len(stack) = Len(pieces) + 1
    /\ Top.index = Len(pieces)
    /\ \E i \in 1..3, j \in 1..3 : i # j /\ stack[i].cand > stack[j].cand

\* the offsets of rotation r of type t, as a set
OffsetSet(t, r) ==
    {movements[t][r + 1][k] : k \in 1..Len(movements[t][r + 1])}

\* C22: every piece type has 3 rotation rows; each row has exactly 5
\* pairwise distinct offsets, starts with (0, 0) and is connected under the
\* 6 hex directions; so a placement that add_piece accepts lies inside one
\* connected component of the FREE cells and its base is a playable cell.
C22_ShapesWellFormed ==
    /\ Len(movements) = NUM_PIECES
    /\ \A t \in AllTypes :
          /\ Len(movements[t]) = 3
          /\ \A r \in 0..2 :
                /\ Len(movements[t][r + 1]) = 5
                /\ Cardinality(OffsetSet(t, r)) = 5
                /\ movements[t][r + 1][1] = << 0, 0 >>
                /\ Grow({<< 0, 0 >>}, OffsetSet(t, r)) = OffsetSet(t, r)
    /\ (last.op = "add_piece" /\ last.ret) =>
          /\ \E comp \in Components(pre) : PointSet(last.piece) \subseteq comp
          /\ << last.piece.base_x, last.piece.base_y >> \in Playable
          /\ << last.piece.base_x, last.piece.base_y >> \in PointSet(last.piece)

\* a placement has been accepted on a grid whose FREE cells form two
\* components
C22_Witness ==
    /\ last.op = "add_piece"
    /\ last.ret
    /\ Cardinality(Components(pre)) = 2
    /\ Len(pieces) = 3

\* the turn of the hexagonal grid by 120 degrees about the origin
Turn(S) == {<< 0 - o[1] - o[2], o[1] >> : o \in S}

RECURSIVE TurnTimes(_, _)
TurnTimes(S, k) == IF k = 0 THEN S ELSE TurnTimes(Turn(S), k - 1)

\* the cells of a placement relative to its base
ShapeOf(p) == {<< c[1] - p.base_x, c[2] - p.base_y >> : c \in PointSet(p)}

\* C23: for every piece type the row of rotation k, k = 1, 2, holds the
\* offsets of rotation 0 turned k times by (dx, dy) -> (-dx - dy, dx), and
\* three turns give rotation 0 again; so a piece built with rotation r has
\* the shape of rotation 0 turned r mod 3 times.
C23_RotationsConsistent ==
    /\ \A t \in AllTypes :
          /\ \A k \in 1..2 : OffsetSet(t, k) = TurnTimes(OffsetSet(t, 0), k)
          /\ TurnTimes(OffsetSet(t, 0), 3) = OffsetSet(t, 0)
    /\ last.op \in {"get_piece", "make_new"} =>
          /\ ShapeOf(last.piece)
                = TurnTimes(OffsetSet(last.piece.index, 0), last.piece.rotation)
          /\ \E k \in 0..(MaxRot + 1) :
                /\ last.args.rot + 3 * k >= 0
                /\ ShapeOf(last.piece)
                      = TurnTimes(OffsetSet(last.piece.index, 0),
                                  last.args.rot + 3 * k)

\* make_new was called with rotation -1 and returned a piece in rotation 2,
\* whose shape is not that of rotation 0
C23_Witness ==
    /\ last.op = "make_new"
    /\ last.args.rot = 2 - 3
    /\ last.piece.rotation = 2
    /\ last.piece.index = 12
    /\ ShapeOf(last.piece) # OffsetSet(12, 0)

====
